---------------------------- MODULE Spec2Model ----------------------------
(***************************************************************************)
(* bids/modeling/auto_model.py: auto_model builds, for every task of a     *)
(* BIDSLayout, a default model (a Run node, and with one_vs_rest the       *)
(* one-vs-rest contrasts and the Session / Subject / Dataset passthrough   *)
(* nodes).  Python dicts are records (functions on strings), lists are     *)
(* sequences, float64 values are records [sign, exp, hi, lo].              *)
(***************************************************************************)
EXTENDS Integers, Sequences, FiniteSets, TLC

VARIABLES layout, one_vs_rest, pc, task_i, model, nodes, run_nodes,
          trial_types, contrasts, task_models, result, loaded

(***************************************************************************)
(* layout, one_vs_rest  the arguments of the call (scan_length is only     *)
(*                      handed on to load_variables)                       *)
(* pc                   "loop": at the head of the for loop (line 52);     *)
(*                      "loaded": load_variables has returned (line 79);   *)
(*                      "built": nodes is complete (line 147);             *)
(*                      "returned"; "raised": an exception left the call;  *)
(*                      "contrasts": inside the loop of lines 105-122      *)
(* task_i               the position of task_name in tasks                 *)
(* model, nodes, run_nodes, trial_types, contrasts, task_models            *)
(*                      the locals of these names; a node of run_nodes is  *)
(*                      the list n.variables['trial_type'].values.values   *)
(* result               what the caller has received                       *)
(* loaded               history: the set of labels load_variables returned *)
(*                      for each task so far, in task order                *)
(***************************************************************************)
vars == <<layout, one_vs_rest, pc, task_i, model, nodes, run_nodes,
          trial_types, contrasts, task_models, result, loaded>>

(***************************************************************************)
(* Bounds of the model and the vocabularies the inputs are drawn from.     *)
(***************************************************************************)
MaxRuns == 2
MaxEvents == 2
MaxSessions == 2
MaxSubjects == 2
MaxTrialTypes == 6

\* Trial-type labels, in ascending code-point order (the order of np.unique).
AllLabels == <<"cue", "go", "nogo", "probe", "stop", "target", "wait">>
\* Labels the event files of the modelled datasets carry.
Labels == {"go", "stop"}
\* Labels of the trial-type lists the contrast loop is run on by itself.
WideLabels == {AllLabels[n] : n \in 1..MaxTrialTypes}
TaskNames == {"nback", "rest"}
RootName == "ds"

\* result before auto_model has returned, and the value of a return.
NoResult == [returned |-> FALSE, value |-> <<>>]

Returned(v) == [returned |-> TRUE, value |-> v]

Range(s) == {s[n] : n \in DOMAIN s}

SeqsUpTo(S, n) == UNION {[1..m -> S] : m \in 0..n}

(***************************************************************************)
(* float64.  A finite nonzero double is [sign, exp, hi, lo] and stands for *)
(* (-1)^sign * (hi * 2^27 + lo) * 2^(exp - 52) with a 53-bit significand:  *)
(* 2^25 <= hi < 2^26 and 0 <= lo < 2^27.                                   *)
(***************************************************************************)
Limb == 2^27

\* np.ones(n): n times 1.0
One == [sign |-> 0, exp |-> 0, hi |-> 2^25, lo |-> 0]

np_ones(n) == [p \in 1..n |-> One]

\* The least j with 2^j >= d, for d >= 1.
RECURSIVE CeilLog2(_)
CeilLog2(d) == IF d <= 1 THEN 0 ELSE 1 + CeilLog2((d + 1) \div 2)

\* -1.0 / d for a Python int d: ZeroDivisionError for d = 0, else the
\* quotient rounded to the nearest double, ties to even (d <= 15 keeps the
\* long division within 32-bit integers).
NegOneOver(d) ==
    IF d = 0 THEN [exc |-> "ZeroDivisionError", val |-> One]
    ELSE LET j   == CeilLog2(d)
             a   == 2^(25 + j)
             hi0 == a \div d
             r1  == a % d
             lo0 == (r1 * Limb) \div d
             r2  == (r1 * Limb) % d
             up  == (2 * r2 > d) \/ (2 * r2 = d /\ lo0 % 2 = 1)
             lo1 == IF up THEN lo0 + 1 ELSE lo0
             hi1 == IF lo1 = Limb THEN hi0 + 1 ELSE hi0
             lo2 == IF lo1 = Limb THEN 0 ELSE lo1
         IN  [exc |-> "",
              val |-> IF hi1 = 2^26
                        THEN [sign |-> 1, exp |-> 1 - j, hi |-> 2^25, lo |-> 0]
                        ELSE [sign |-> 1, exp |-> 0 - j, hi |-> hi1, lo |-> lo2]]

\* The literal 0.2 of PeakUndershootRatio: the double nearest to 1/5.
PeakUndershootRatio == [NegOneOver(5).val EXCEPT !.sign = 0]

(***************************************************************************)
(* Trial types (lines 81-85).                                              *)
(***************************************************************************)
Rank(l) == CHOOSE n \in DOMAIN AllLabels : AllLabels[n] = l

\* evs.extend(...) over run_nodes.nodes: the values of all nodes, in order.
RECURSIVE Evs(_)
Evs(rn) == IF rn = <<>> THEN <<>> ELSE Head(rn) \o Evs(Tail(rn))

\* np.unique: the distinct values in ascending order.
RECURSIVE SortedSeq(_)
SortedSeq(S) ==
    IF S = {} THEN <<>>
    ELSE LET m == CHOOSE x \in S : \A y \in S : Rank(x) <= Rank(y)
         IN  <<m>> \o SortedSeq(S \ {m})

\* The distinct values in order of first appearance (pandas.unique).
FirstSeen(evs) ==
    LET RECURSIVE Keep(_, _)
        Keep(s, seen) ==
            IF s = <<>> THEN <<>>
            ELSE IF Head(s) \in seen THEN Keep(Tail(s), seen)
            ELSE <<Head(s)>> \o Keep(Tail(s), seen \cup {Head(s)})
    IN  Keep(evs, {})

np_unique(evs) == SortedSeq(Range(evs))

TrialTypeFactors(tts) == [p \in DOMAIN tts |-> "trial_type." \o tts[p]]



(***************************************************************************)
(* _make_passthrough_contrast (lines 6-21).                                *)
(***************************************************************************)
gb_dict(level) ==
    CASE level = "Subject" -> <<"subject", "contrast">>
      [] level = "Session" -> <<"session", "contrast">>
      [] level = "Dataset" -> <<"contrast">>

\* str.lower() on the level names the function is called with.
lower(level) ==
    CASE level = "Subject" -> "subject"
      [] level = "Session" -> "session"
      [] level = "Dataset" -> "dataset"

PassthroughCdict(level, cn, test) ==
    [Name |-> lower(level) \o "_" \o cn, ConditionList |-> <<cn>>,
     Weights |-> <<1>>, Test |-> test]

make_passthrough_contrast(level, contrast_names, model_type, test) ==
    [Level |-> level,
     Name |-> level,
     GroupBy |-> gb_dict(level),
     Model |-> [Type |-> model_type, X |-> contrast_names],
     Contrasts |-> [p \in DOMAIN contrast_names |->
                       PassthroughCdict(level, contrast_names[p], test)]]

\* The defaults of the parameters model_type and test (line 6).
DefaultMeta == "meta"

DefaultModelType == "glm"
DefaultTest == "t"

(***************************************************************************)
(* The run level block (lines 62-100).                                     *)
(***************************************************************************)
Transformations ==
    [Transformer |-> "pybids-transforms-v1",
     Instructions |-> <<[Name |-> "Factor", Input |-> "trial_type"]>>]

RunBlock ==
    [Level |-> "Run", Name |-> "Run", GroupBy |-> <<"run", "subject">>,
     Transformations |-> Transformations]

RunModel(trial_type_factors) ==
    [Type |-> "glm",
     X |-> trial_type_factors,
     HRF |-> [Variables |-> trial_type_factors,
              Model |-> "DoubleGamma",
              Parameters |-> [PeakDelay |-> 3,
                              PeakDispersion |-> 6,
                              UndershootDelay |-> 10,
                              UndershootDispersion |-> 12,
                              PeakUndershootRatio |-> PeakUndershootRatio]]]

(***************************************************************************)
(* One-vs-rest contrasts (lines 104-122).  Each operator returns           *)
(* [exc, val]: exc is "" or the exception that leaves the block.           *)
(***************************************************************************)
ContrastName(tt, tts) ==
    IF Len(tts) > 1 THEN "run_" \o tt \o "_vs_others" ELSE "run_" \o tt

ExceptNothing(exc) == exc

\* except ZeroDivisionError: pass  (lines 117-118)
ExceptZeroDivisionError(exc) == IF exc = "ZeroDivisionError" THEN "" ELSE exc

\* The rest weighted -1.0 / len(trial_types).
WeightsOverLen(tt, tts) ==
    LET ones == np_ones(Len(tts))
        q    == NegOneOver(Len(tts))
    IN  IF q.exc # ""
          THEN [exc |-> ExceptZeroDivisionError(q.exc), val |-> ones]
          ELSE [exc |-> "",
                val |-> [p \in DOMAIN tts |->
                            IF tts[p] # tt THEN q.val ELSE ones[p]]]

\* lines 114-118: the right-hand side of line 116 is evaluated first; when
\* it raises, the masked assignment does not happen.
Weights(tt, tts) ==
    LET ones == np_ones(Len(tts))
        q    == NegOneOver(Len(tts) - 1)
    IN  IF q.exc # ""
          THEN [exc |-> ExceptZeroDivisionError(q.exc), val |-> ones]
          ELSE [exc |-> "",
                val |-> [p \in DOMAIN tts |->
                            IF tts[p] # tt THEN q.val ELSE ones[p]]]

\* ConditionList holding the contrast's own regressor only.
CdictOwnCondition(tt, tts, trial_type_factors) ==
    LET w == Weights(tt, tts)
    IN  [exc |-> w.exc,
         val |-> [Name |-> ContrastName(tt, tts),
                  ConditionList |-> <<"trial_type." \o tt>>,
                  Weights |-> w.val,
                  Test |-> "t"]]

\* The body of the loop over trial_types (lines 106-121).
Cdict(tt, tts, trial_type_factors) ==
    LET w == Weights(tt, tts)
    IN  [exc |-> w.exc,
         val |-> [Name |-> ContrastName(tt, tts),
                  ConditionList |-> trial_type_factors,
                  Weights |-> w.val,
                  Test |-> "t"]]

\* The whole loop (lines 104-122).
RunContrasts(tts, trial_type_factors) ==
    LET cs   == [p \in DOMAIN tts |-> Cdict(tts[p], tts, trial_type_factors)]
        bad  == {p \in DOMAIN tts : cs[p].exc # ""}
    IN  IF bad # {}
          THEN [exc |-> cs[CHOOSE p \in bad : \A r \in bad : p <= r].exc,
                val |-> <<>>]
          ELSE [exc |-> "", val |-> [p \in DOMAIN tts |-> cs[p].val]]

(***************************************************************************)
(* The passthrough chain (lines 127-147).                                  *)
(***************************************************************************)
\* The names read from the run node, nodes[0].
ContrastNamesOfRun(ns) ==
    [p \in DOMAIN ns[1].Contrasts |-> ns[1].Contrasts[p].Name]

\* [cc["Name"] for cc in nodes[-1]["Contrasts"]]
ContrastNames(ns) ==
    LET last == ns[Len(ns)]
    IN  [p \in DOMAIN last.Contrasts |-> last.Contrasts[p].Name]

SessionNodeIfAny(sessions) == Len(sessions) >= 1

\* line 131 and line 138
HasSessionNode(sessions) == Len(sessions) > 1
HasSubjectNode(subjects) == Len(subjects) > 1

WithSession(ns, sessions) ==
    IF HasSessionNode(sessions)
      THEN Append(ns, make_passthrough_contrast(
                          "Session", ContrastNames(ns), "meta", DefaultTest))
      ELSE ns

WithSubject(ns, subjects) ==
    IF HasSubjectNode(subjects)
      THEN Append(ns, make_passthrough_contrast(
                          "Subject", ContrastNames(ns), "meta", DefaultTest))
      ELSE ns

WithDataset(ns) ==
    Append(ns, make_passthrough_contrast(
                   "Dataset", ContrastNames(ns), DefaultModelType, DefaultTest))

(***************************************************************************)
(* The inputs of a call.                                                   *)
(***************************************************************************)
\* layout.get_sessions() / get_subjects(): a list of n entity values.
Entities(n) == [e \in 1..n |-> e]

\* layout.entities['task'].unique(): distinct task names, in any order.
TaskLists == {ts \in SeqsUpTo(TaskNames, Cardinality(TaskNames)) :
                 \A p, q \in DOMAIN ts : p # q => ts[p] # ts[q]}

Layouts == [root_name : {RootName},
            tasks     : TaskLists,
            sessions  : {Entities(n) : n \in 0..MaxSessions},
            subjects  : {Entities(n) : n \in 0..MaxSubjects}]

\* What load_variables may return for a task: run_nodes.nodes, each node
\* given by the values of its trial_type variable.
RunNodeSets == SeqsUpTo(SeqsUpTo(Labels, MaxEvents), MaxRuns)

Init ==
    /\ layout \in Layouts
    /\ one_vs_rest \in BOOLEAN
    /\ pc = "loop"
    /\ task_i = 1
    /\ model = <<>>
    /\ nodes = <<>>
    /\ run_nodes = <<>>
    /\ trial_types = <<>>
    /\ contrasts = <<>>
    /\ task_models = <<>>
    /\ result = NoResult
    /\ loaded = <<>>

(***************************************************************************)
(* auto_model (lines 48-152), one action per stretch of the loop body.     *)
(***************************************************************************)
\* lines 54-59
ModelMetaData(base_name, task_name) ==
    [Name |-> base_name \o "_" \o task_name,
     Description |-> "Autogenerated model for the " \o task_name
                       \o " task from " \o base_name,
     BIDSModelVersion |-> "1.0.0",
     Input |-> [task |-> <<task_name>>]]

StaleNodes(old) == old

\* line 60: nodes = []
FreshNodes(old) == <<>>

SkipFailedTask(i) == [pc |-> "loop", task_i |-> i + 1]

\* lines 78-79 stand in no try block: an exception of load_variables leaves
\* auto_model at once.
AfterLoadFailure(i) == [pc |-> "raised", task_i |-> i]

\* lines 52-79, load_variables returning
LoadVariables ==
    /\ pc = "loop"
    /\ task_i <= Len(layout.tasks)
    /\ model' = ModelMetaData(layout.root_name, layout.tasks[task_i])
    /\ nodes' = FreshNodes(nodes)
    /\ \E rn \in RunNodeSets :
          /\ run_nodes' = rn
          /\ loaded' = Append(loaded, Range(Evs(rn)))
    /\ pc' = "loaded"
    /\ UNCHANGED <<layout, one_vs_rest, task_i, trial_types, contrasts,
                   task_models, result>>

\* lines 52-79, load_variables raising
LoadVariablesRaises ==
    /\ pc = "loop"
    /\ task_i <= Len(layout.tasks)
    /\ model' = ModelMetaData(layout.root_name, layout.tasks[task_i])
    /\ nodes' = FreshNodes(nodes)
    /\ pc' = AfterLoadFailure(task_i).pc
    /\ task_i' = AfterLoadFailure(task_i).task_i
    /\ UNCHANGED <<layout, one_vs_rest, run_nodes, trial_types, contrasts,
                   task_models, result, loaded>>

ContrastsAlways(ovr) == TRUE

\* line 102 and line 127: if one_vs_rest
ContrastsEnabled(ovr) == ovr
PassthroughEnabled(ovr) == ovr

\* lines 81-147
BuildNodes ==
    /\ pc = "loaded"
    /\ LET evs     == Evs(run_nodes)
           tts     == np_unique(evs)
           factors == TrialTypeFactors(tts)
           run     == RunBlock @@ ("Model" :> RunModel(factors))
           cs      == RunContrasts(tts, factors)
       IN  /\ trial_types' = tts
           /\ IF ContrastsEnabled(one_vs_rest) /\ cs.exc # ""
                THEN /\ pc' = "raised"
                     /\ UNCHANGED <<nodes, contrasts>>
                ELSE LET run_c == IF ContrastsEnabled(one_vs_rest)
                                    THEN run @@ ("Contrasts" :> cs.val)
                                    ELSE run
                         ns    == Append(nodes, run_c)
                     IN  /\ contrasts' = IF ContrastsEnabled(one_vs_rest)
                                           THEN cs.val ELSE contrasts
                         /\ nodes' = IF PassthroughEnabled(one_vs_rest)
                                       THEN WithDataset(WithSubject(WithSession(
                                                ns, layout.sessions),
                                                layout.subjects))
                                       ELSE ns
                         /\ pc' = "built"
    /\ UNCHANGED <<layout, one_vs_rest, task_i, model, run_nodes,
                   task_models, result, loaded>>

\* lines 149-150 and the step to the next task.  run_nodes is bound again
\* at line 78 before anything reads it, so the model forgets it here.
AppendModel ==
    /\ pc = "built"
    /\ model' = model @@ ("Nodes" :> nodes)
    /\ task_models' = Append(task_models, model')
    /\ task_i' = task_i + 1
    /\ run_nodes' = <<>>
    /\ pc' = "loop"
    /\ UNCHANGED <<layout, one_vs_rest, nodes, trial_types, contrasts,
                   result, loaded>>

\* line 152
Return ==
    /\ pc = "loop"
    /\ task_i > Len(layout.tasks)
    /\ result' = Returned(task_models)
    /\ pc' = "returned"
    /\ UNCHANGED <<layout, one_vs_rest, task_i, model, nodes, run_nodes,
                   trial_types, contrasts, task_models, loaded>>

Next == LoadVariables \/ LoadVariablesRaises \/ BuildNodes \/ AppendModel
           \/ Return

Spec == Init /\ [][Next]_vars

(***************************************************************************)
(* The contrast loop by itself (lines 104-122), one pass of the body per   *)
(* step, on every sorted list of up to MaxTrialTypes distinct trial types. *)
(***************************************************************************)
InitContrasts ==
    /\ layout = [root_name |-> RootName, tasks |-> <<"rest">>,
                 sessions |-> Entities(1), subjects |-> Entities(1)]
    /\ one_vs_rest = TRUE
    /\ pc = "contrasts"
    /\ task_i = 1
    /\ model = ModelMetaData(RootName, "rest")
    /\ nodes = <<>>
    /\ run_nodes = <<>>
    /\ trial_types \in {SortedSeq(S) : S \in SUBSET WideLabels}
    /\ contrasts = <<>>
    /\ task_models = <<>>
    /\ result = NoResult
    /\ loaded = <<>>

ContrastLoop ==
    /\ pc = "contrasts"
    /\ Len(contrasts) < Len(trial_types)
    /\ LET c == Cdict(trial_types[Len(contrasts) + 1], trial_types,
                      TrialTypeFactors(trial_types))
       IN  IF c.exc # ""
             THEN pc' = "raised" /\ UNCHANGED contrasts
             ELSE contrasts' = Append(contrasts, c.val) /\ UNCHANGED pc
    /\ UNCHANGED <<layout, one_vs_rest, task_i, model, nodes, run_nodes,
                   trial_types, task_models, result, loaded>>

NextContrasts == ContrastLoop

SpecContrasts == InitContrasts /\ [][NextContrasts]_vars

(***************************************************************************)
(* What the claims speak of.                                               *)
(***************************************************************************)
\* The Nodes of every TaskModel built so far, and the node list of the task
\* in hand once it is complete.
NodeLists == {task_models[n].Nodes : n \in DOMAIN task_models}
                 \cup (IF pc = "built" THEN {nodes} ELSE {})

Levels(ns) == [p \in DOMAIN ns |-> ns[p].Level]

ManySessions == Len(layout.sessions) > 1
ManySubjects == Len(layout.subjects) > 1

\* The labels of the events load_variables returned for the task in hand.
LoadedLabels == UNION {Range(run_nodes[r]) : r \in DOMAIN run_nodes}

\* The exact sum of a list of doubles, as [hi, lo] standing for the integer
\* hi * 2^27 + lo (0 <= lo < 2^27) in units of 2^(e - 52), e the least
\* exponent of the list.
MinExp(ws) == CHOOSE e \in {ws[p].exp : p \in DOMAIN ws} :
                 \A p \in DOMAIN ws : e <= ws[p].exp

RECURSIVE LimbSum(_, _, _)
LimbSum(ws, e, limb) ==
    IF ws = <<>> THEN 0
    ELSE LET w == Head(ws)
             m == (IF limb = "hi" THEN w.hi ELSE w.lo) * 2^(w.exp - e)
         IN  (IF w.sign = 1 THEN 0 - m ELSE m) + LimbSum(Tail(ws), e, limb)

ExactSum(ws) ==
    LET e == MinExp(ws)
        h == LimbSum(ws, e, "hi")
        l == LimbSum(ws, e, "lo")
    IN  [hi |-> h + (l \div Limb), lo |-> l % Limb, exp |-> e]

SumIsZero(ws) == ExactSum(ws).hi = 0 /\ ExactSum(ws).lo = 0

\* |sum| <= (num / 2) units of 2^(e - 52)
SumWithin(ws, num) ==
    LET x == ExactSum(ws)
    IN  \/ x.hi = 0 /\ 2 * x.lo <= num
        \/ x.hi = -1 /\ 2 * (Limb - x.lo) <= num

IsPowerOfTwo(n) == \E j \in 0..n : 2^j = n

(***************************************************************************)
(* C1: with one_vs_rest, the Levels of every TaskModel's Nodes are Run,    *)
(* then Session iff the dataset has more than one session, then Subject    *)
(* iff it has more than one subject, then Dataset, and nothing else.       *)
(***************************************************************************)
C1_NodeLevels ==
    one_vs_rest =>
        \A ns \in NodeLists :
            Levels(ns) = <<"Run">>
                           \o (IF ManySessions THEN <<"Session">> ELSE <<>>)
                           \o (IF ManySubjects THEN <<"Subject">> ELSE <<>>)
                           \o <<"Dataset">>

C1_Witness ==
    /\ one_vs_rest
    /\ Len(layout.sessions) = 1
    /\ ManySubjects
    /\ Len(task_models) = 2
    /\ Levels(task_models[2].Nodes) = <<"Run", "Subject", "Dataset">>

(***************************************************************************)
(* C2: without one_vs_rest every TaskModel's Nodes is the Run node alone,  *)
(* and that node has no Contrasts key, whatever the numbers of sessions,   *)
(* subjects and trial types.                                               *)
(***************************************************************************)
C2_RunNodeOnly ==
    ~one_vs_rest =>
        \A ns \in NodeLists :
            /\ Len(ns) = 1
            /\ ns[1].Level = "Run"
            /\ "Contrasts" \notin DOMAIN ns[1]

C2_Witness ==
    /\ ~one_vs_rest
    /\ ManySessions
    /\ ManySubjects
    /\ Len(task_models) >= 1
    /\ Len(task_models[1].Nodes[1].Model.X) > 1

(***************************************************************************)
(* C3: for k > 1 trial types the run-level contrast of tt weighs the       *)
(* regressor trial_type.<tt> 1 and every other regressor -1/(k-1).         *)
(* RunContrastShape is the part about the positions: 1.0 at tt, one and    *)
(* the same negative double everywhere else.                               *)
(***************************************************************************)
RunContrastShape(c, tt, tts) ==
    LET pos == CHOOSE p \in DOMAIN c.ConditionList :
                   c.ConditionList[p] = "trial_type." \o tt
    IN  /\ Len(c.Weights) = Len(tts)
        /\ c.Weights[pos] = One
        /\ \A p, q \in DOMAIN c.Weights \ {pos} :
              c.Weights[p] = c.Weights[q] /\ c.Weights[p].sign = 1

\* C3 as claimed: the weights -1/(k-1) and 1 sum to zero.
C3_WeightsSumToZero ==
    \A n \in DOMAIN contrasts :
        Len(trial_types) > 1 =>
            /\ RunContrastShape(contrasts[n], trial_types[n], trial_types)
            /\ SumIsZero(contrasts[n].Weights)

\* C3 as amended: the other weights are the double nearest to -1/(k-1), so
\* the sum is zero exactly when k-1 is a power of two and is otherwise off
\* zero by at most half a unit in the last place of that double times k-1,
\* which is at most 2^-53.
C3_WeightsSumToZeroRounded ==
    \A n \in DOMAIN contrasts :
        Len(trial_types) > 1 =>
            /\ RunContrastShape(contrasts[n], trial_types[n], trial_types)
            /\ SumWithin(contrasts[n].Weights, Len(trial_types) - 1)
            /\ 2^(0 - MinExp(contrasts[n].Weights)) <= 2 * (Len(trial_types) - 1)
            /\ SumIsZero(contrasts[n].Weights)
                  <=> IsPowerOfTwo(Len(trial_types) - 1)

C3_Witness ==
    /\ pc = "contrasts"
    /\ Len(trial_types) = 4
    /\ Len(contrasts) = 4
    /\ ~SumIsZero(contrasts[2].Weights)
    /\ ExactSum(contrasts[2].Weights) = [hi |-> 0, lo |-> 1, exp |-> -2]

(***************************************************************************)
(* C4: with one_vs_rest and a single trial type tt the division by zero    *)
(* does not fail the call, and the Run node carries one contrast, named    *)
(* "run_<tt>", whose Weights are all 1.0.                                  *)
(***************************************************************************)
C4_SingleTrialType ==
    /\ pc = "raised" => Len(loaded) < task_i
    /\ (pc = "built" /\ one_vs_rest /\ Cardinality(LoadedLabels) = 1) =>
          \E tt \in LoadedLabels :
              nodes[1].Contrasts =
                  <<[Name |-> "run_" \o tt,
                     ConditionList |-> <<"trial_type." \o tt>>,
                     Weights |-> <<One>>,
                     Test |-> "t"]>>

C4_Witness ==
    /\ pc = "built"
    /\ one_vs_rest
    /\ Cardinality(LoadedLabels) = 1
    /\ Len(Evs(run_nodes)) > 1
    /\ Len(nodes[1].Contrasts) = 1

(***************************************************************************)
(* C5: every contrast of every node of every TaskModel has as many Weights *)
(* as its ConditionList has conditions.                                    *)
(***************************************************************************)
C5_WeightsMatchConditions ==
    \A ns \in NodeLists :
        \A p \in DOMAIN ns :
            "Contrasts" \in DOMAIN ns[p] =>
                \A q \in DOMAIN ns[p].Contrasts :
                    Len(ns[p].Contrasts[q].Weights)
                        = Len(ns[p].Contrasts[q].ConditionList)

C5_Witness ==
    /\ Len(task_models) >= 1
    /\ Len(task_models[1].Nodes) = 4
    /\ Len(task_models[1].Nodes[1].Contrasts) = 2
    /\ Len(task_models[1].Nodes[1].Contrasts[1].Weights) = 2
    /\ Len(task_models[1].Nodes[4].Contrasts) = 2
    /\ Len(task_models[1].Nodes[4].Contrasts[2].Weights) = 1

(***************************************************************************)
(* C6: the Run node's Model.X and Model.HRF.Variables are one list, the    *)
(* names "trial_type.<label>" of the labels of all run-level nodes of the  *)
(* task, without duplicates and ascending; every run-level contrast has    *)
(* that list as its ConditionList.                                         *)
(***************************************************************************)
C6_TrialTypeFactors ==
    pc = "built" =>
        /\ Range(trial_types) = LoadedLabels
        /\ \A p, q \in DOMAIN trial_types :
              p < q => Rank(trial_types[p]) < Rank(trial_types[q])
        /\ nodes[1].Model.X =
              [p \in DOMAIN trial_types |-> "trial_type." \o trial_types[p]]
        /\ nodes[1].Model.HRF.Variables = nodes[1].Model.X
        /\ one_vs_rest =>
              /\ Len(nodes[1].Contrasts) = Len(trial_types)
              /\ \A q \in DOMAIN nodes[1].Contrasts :
                    nodes[1].Contrasts[q].ConditionList = nodes[1].Model.X

C6_Witness ==
    /\ pc = "built"
    /\ one_vs_rest
    /\ Len(run_nodes) = 2
    /\ Len(Evs(run_nodes)) > Len(trial_types)
    /\ Evs(run_nodes)[1] = "stop"
    /\ nodes[1].Model.X = <<"trial_type.go", "trial_type.stop">>

(***************************************************************************)
(* C7: every passthrough node takes the contrast names of the node before  *)
(* it as its Model.X, in order, and has one contrast per name cn, in       *)
(* order: Name "<level in lowercase>_<cn>", ConditionList [cn],            *)
(* Weights [1], Test "t".  The Dataset node follows the Subject node if    *)
(* there is one, else the Session node if there is one, else the Run node. *)
(***************************************************************************)
LevelPrefix(level) ==
    CASE level = "Session" -> "session_"
      [] level = "Subject" -> "subject_"
      [] level = "Dataset" -> "dataset_"

C7_Passthrough ==
    \A ns \in NodeLists :
        /\ \A p \in 2..Len(ns) :
              LET prev == ns[p - 1].Contrasts
              IN  /\ ns[p].Model.X = [q \in DOMAIN prev |-> prev[q].Name]
                  /\ ns[p].Contrasts =
                        [q \in DOMAIN prev |->
                            [Name |-> LevelPrefix(ns[p].Level) \o prev[q].Name,
                             ConditionList |-> <<prev[q].Name>>,
                             Weights |-> <<1>>,
                             Test |-> "t"]]
        /\ Len(ns) > 1 =>
              /\ ns[Len(ns)].Level = "Dataset"
              /\ ns[Len(ns) - 1].Level =
                    IF ManySubjects THEN "Subject"
                    ELSE IF ManySessions THEN "Session" ELSE "Run"

C7_Witness ==
    /\ Len(task_models) >= 1
    /\ Len(task_models[1].Nodes) = 4
    /\ task_models[1].Nodes[4].Level = "Dataset"
    /\ task_models[1].Nodes[4].Model.X =
          <<"subject_session_run_go_vs_others",
            "subject_session_run_stop_vs_others">>
    /\ task_models[1].Nodes[4].Contrasts[1].Name =
          "dataset_subject_session_run_go_vs_others"

(***************************************************************************)
(* C8: Model.Type is "meta" for Session and Subject nodes and "glm" for    *)
(* the Dataset and the Run node; GroupBy is [run, subject] for Run,        *)
(* [session, contrast] for Session, [subject, contrast] for Subject and    *)
(* [contrast] for Dataset.                                                 *)
(***************************************************************************)
C8_TypesAndGroupBy ==
    \A ns \in NodeLists :
        \A p \in DOMAIN ns :
            /\ ns[p].Level \in {"Run", "Session", "Subject", "Dataset"}
            /\ ns[p].Model.Type =
                  (IF ns[p].Level \in {"Session", "Subject"}
                     THEN "meta" ELSE "glm")
            /\ ns[p].GroupBy =
                  CASE ns[p].Level = "Run" -> <<"run", "subject">>
                    [] ns[p].Level = "Session" -> <<"session", "contrast">>
                    [] ns[p].Level = "Subject" -> <<"subject", "contrast">>
                    [] ns[p].Level = "Dataset" -> <<"contrast">>

C8_Witness ==
    /\ Len(task_models) >= 1
    /\ Levels(task_models[1].Nodes) = <<"Run", "Session", "Subject", "Dataset">>
    /\ task_models[1].Nodes[2].Model.Type = "meta"
    /\ task_models[1].Nodes[4].Model.Type = "glm"

(***************************************************************************)
(* C9: a call that returns gives one TaskModel per task, in the order of   *)
(* the tasks: the i-th has Input {task: [i-th task]}, Name                 *)
(* "<root name>_<task>" and BIDSModelVersion "1.0.0"; its regressors are   *)
(* those of its own task's trial types, and two tasks with the same trial  *)
(* types get the same Nodes, whatever else the call processed.             *)
(***************************************************************************)
C9_OneModelPerTask ==
    /\ pc = "returned" =>
          /\ result = Returned(task_models)
          /\ Len(result.value) = Len(layout.tasks)
    /\ Len(task_models) <= Len(layout.tasks)
    /\ \A n \in DOMAIN task_models :
          /\ task_models[n].Input = [task |-> <<layout.tasks[n]>>]
          /\ task_models[n].Name = layout.root_name \o "_" \o layout.tasks[n]
          /\ task_models[n].BIDSModelVersion = "1.0.0"
          /\ Range(task_models[n].Nodes[1].Model.X)
                = {"trial_type." \o l : l \in loaded[n]}
          /\ \A m \in DOMAIN task_models :
                loaded[m] = loaded[n]
                    => task_models[m].Nodes = task_models[n].Nodes

C9_Witness ==
    /\ pc = "returned"
    /\ Len(result.value) = 2
    /\ layout.tasks = <<"rest", "nback">>
    /\ result.value[1].Name = "ds_rest"
    /\ loaded[1] = {"go", "stop"}
    /\ loaded[2] = {"stop"}

(***************************************************************************)
(* C10: when load_variables fails for a task the call ends there with the  *)
(* failure: nothing is returned, not even the TaskModels of the tasks      *)
(* processed before, and the task is neither retried nor skipped.          *)
(***************************************************************************)
C10_LoadFailurePropagates ==
    /\ pc = "raised" => result = NoResult /\ ~ENABLED Next
    /\ result # NoResult => Len(loaded) = Len(layout.tasks)
    /\ pc = "loop" => Len(loaded) = task_i - 1

C10_Witness ==
    /\ pc = "raised"
    /\ Len(task_models) = 1
    /\ task_i = 2
    /\ result = NoResult

=============================================================================
